---- MODULE Spec2Model ----
(***************************************************************************)
(* abootimg: read, validate, modify and write Android boot images.         *)
(* A model of src/abootimg.c: the header checks, the page layout, the      *)
(* config-line patcher, version promotion, payload assembly and the image  *)
(* writer, and main()'s four command flows over a byte-addressed target.   *)
(*                                                                         *)
(* Scaling.  TLC's integers are 32-bit signed, so the C widths are scaled: *)
(* `unsigned`/uint32_t is arithmetic modulo UintMod = 2^15 and             *)
(* `unsigned long long`/uint64_t modulo U64Mod = 2^30.  bootimg.h is not   *)
(* among the sources; the structure sizes and the two string capacities    *)
(* it defines are small stand-ins (SizeofV0 < SizeofV1 < SizeofV2).        *)
(***************************************************************************)
EXTENDS Integers, Sequences, FiniteSets, TLC

VARIABLES
  cmd,      \* enum command chosen by parse_args
  pc,       \* position in main()
  err,      \* the condition the run stopped with, "none" while it runs
  img,      \* t_abootimg: size, is_blkdev, header, payload buffers
  args,     \* what parse_args stored: replacement sources, config lines
  target,   \* the file or block device named <bootimg>
  target0,  \* history: the target when the command started
  img0,     \* history: img before the last step
  wlog,     \* history: the writes write_bootimg made, in order
  rlog,     \* history: the reads of regions of the target, in order
  outs      \* the files `-x` produced

vars == <<cmd, pc, err, img, args, target, target0, img0, wlog, rlog, outs>>

---------------------------------------------------------------------------
(* Integer widths *)

\* unsigned, uint32_t (scaled from 2^32)
UintMod == 2^15

\* unsigned long long, uint64_t (scaled from 2^64)
U64Mod == 2^30

U32(x) == x % UintMod

\* a * b in unsigned arithmetic; the factors are reduced first so that the
\* product stays inside TLC's integers
MulU(a, b) == ((a % UintMod) * (b % UintMod)) % UintMod

Max(a, b) == IF a >= b THEN a ELSE b
Min(a, b) == IF a <= b THEN a ELSE b

\* F(v), with v evaluated once before F uses it
Force(v, F(_)) == CHOOSE r \in { F(x) : x \in {v} } : TRUE

---------------------------------------------------------------------------
(* bootimg.h (not among the sources): structure sizes, capacities, magic *)

SizeofV0 == 1
SizeofV1 == 2
SizeofV2 == 3
BOOT_ARGS_SIZE == 4
BOOT_NAME_SIZE == 3
BOOT_MAGIC == "ANDROID!"

\* the terminating byte of a C string
NUL == "NUL"

---------------------------------------------------------------------------
(* boot_img_header_size *)

boot_img_header_size(h) ==
  IF h.header_version = 0 THEN SizeofV0
  ELSE IF h.header_version = 1 THEN SizeofV1
  ELSE SizeofV2

---------------------------------------------------------------------------
(* The page layout, as every function that needs it computes it *)

\* (size + page_size - 1) / page_size on unsigned operands
Pages(size, page_size) == U32(size + page_size - 1) \div page_size

\* byte offset of page number pg
PageOffset(pg, page_size) == MulU(pg, page_size)

KernelPages(h)  == Pages(h.kernel_size, h.page_size)
RamdiskPages(h) == Pages(h.ramdisk_size, h.page_size)
SecondPages(h)  == Pages(h.second_size, h.page_size)
DtboPages(h)    == Pages(h.recovery_dtbo_size, h.page_size)
DtbPages(h)     == Pages(h.dtb_size, h.page_size)

\* the second stage put right after the kernel
soffset_after_kernel(h) == PageOffset(1 + KernelPages(h), h.page_size)

koffset(h)  == PageOffset(1, h.page_size)
roffset(h)  == PageOffset(1 + KernelPages(h), h.page_size)
soffset(h)  == PageOffset(1 + KernelPages(h) + RamdiskPages(h), h.page_size)
dooffset(h) ==
  PageOffset(1 + KernelPages(h) + RamdiskPages(h) + SecondPages(h), h.page_size)
doffset(h)  ==
  PageOffset(1 + KernelPages(h) + RamdiskPages(h) + SecondPages(h)
               + DtboPages(h), h.page_size)
total_size(h) ==
  PageOffset(1 + KernelPages(h) + RamdiskPages(h) + SecondPages(h)
               + DtboPages(h) + DtbPages(h), h.page_size)

---------------------------------------------------------------------------
(* check_boot_img_header *)

\* cond: the check that failed ("ok" when none did); abort: the function
\* called abort_printf itself; ret: its return value when it returned
CheckResult(c) ==
  [cond  |-> c,
   abort |-> c \in {"UnsupportedVersion", "HeaderSizeMismatch"},
   ret   |-> IF c = "ok" THEN 0 ELSE 1]

\* the same tests with the two size tests made before the version tests
check_sizes_first(h, size) ==
  IF h.magic # BOOT_MAGIC THEN CheckResult("BadMagic")
  ELSE IF h.kernel_size = 0 THEN CheckResult("EmptyKernel")
  ELSE IF h.ramdisk_size = 0 THEN CheckResult("EmptyRamdisk")
  ELSE IF h.header_version > 2 THEN CheckResult("UnsupportedVersion")
  ELSE IF h.header_version >= 1 /\ h.header_size # boot_img_header_size(h)
    THEN CheckResult("HeaderSizeMismatch")
  ELSE IF h.page_size = 0 THEN CheckResult("ZeroPageSize")
  ELSE IF total_size(h) > size THEN CheckResult("ImageTooSmall")
  ELSE CheckResult("ok")

check_boot_img_header(h, size) ==
  IF h.magic # BOOT_MAGIC THEN CheckResult("BadMagic")
  ELSE IF h.header_version > 2 THEN CheckResult("UnsupportedVersion")
  ELSE IF h.header_version >= 1 /\ h.header_size # boot_img_header_size(h)
    THEN CheckResult("HeaderSizeMismatch")
  ELSE IF h.kernel_size = 0 THEN CheckResult("EmptyKernel")
  ELSE IF h.ramdisk_size = 0 THEN CheckResult("EmptyRamdisk")
  ELSE IF h.page_size = 0 THEN CheckResult("ZeroPageSize")
  ELSE IF total_size(h) > size THEN CheckResult("ImageTooSmall")
  ELSE CheckResult("ok")

---------------------------------------------------------------------------
(* update_header_version *)

new_version(h) ==
  IF h.dtb_size > 0 THEN 2
  ELSE IF h.recovery_dtbo_size > 0 THEN 1
  ELSE 0

\* the version set to new_version whatever the header had
set_header_version(h) ==
  LET b == [h EXCEPT !.header_version = new_version(h)]
  IN  [b EXCEPT !.header_size = boot_img_header_size(b)]

\* the version left as it is
keep_header_version(h) == h

update_header_version(h) ==
  IF new_version(h) > h.header_version
    THEN LET b == [h EXCEPT !.header_version = new_version(h)]
         IN  [b EXCEPT !.header_size = boot_img_header_size(b)]
    ELSE h

---------------------------------------------------------------------------
(* C strings: a line or a value is a sequence of one-character strings *)

Blank == {" ", "\t"}

RECURSIVE strspn(_, _)
strspn(s, accept) ==
  IF s = <<>> \/ Head(s) \notin accept THEN 0 ELSE 1 + strspn(Tail(s), accept)

RECURSIVE strcspn(_, _)
strcspn(s, reject) ==
  IF s = <<>> \/ Head(s) \in reject THEN 0 ELSE 1 + strcspn(Tail(s), reject)

Drop(s, n) == SubSeq(s, n + 1, Len(s))
Take(s, n) == SubSeq(s, 1, Min(n, Len(s)))

\* strcmp(token, key) == 0
StrEq(token, key) == token = key

\* strncmp(token, key, strlen(key)) == 0: only the first strlen(key)
\* characters of the token are compared
StrnEq(token, key) == Len(token) >= Len(key) /\ Take(token, Len(key)) = key

\* a char array of n bytes holding s, the rest NUL
Padded(s, n) == [i \in 1..n |-> IF i <= Len(s) THEN s[i] ELSE NUL]

\* the C string a char array holds: the bytes before its first NUL
CStr(a) == Take(a, strcspn(a, {NUL}))

DigitVal ==
  [c \in {"0", "1", "2", "3", "4", "5", "6", "7", "8", "9",
          "a", "b", "c", "d", "e", "f"} |->
     CASE c = "0" -> 0 [] c = "1" -> 1 [] c = "2" -> 2 [] c = "3" -> 3
       [] c = "4" -> 4 [] c = "5" -> 5 [] c = "6" -> 6 [] c = "7" -> 7
       [] c = "8" -> 8 [] c = "9" -> 9 [] c = "a" -> 10 [] c = "b" -> 11
       [] c = "c" -> 12 [] c = "d" -> 13 [] c = "e" -> 14 [] c = "f" -> 15]

IsDigit(c, base) == c \in DOMAIN DigitVal /\ DigitVal[c] < base

\* the digits of s in the base, accumulated from acc; U64Mod (one past
\* ULLONG_MAX) stands for a value that does not fit unsigned long long
RECURSIVE AccDigits(_, _, _)
AccDigits(s, base, acc) ==
  IF s = <<>> \/ ~IsDigit(Head(s), base) THEN acc
  ELSE IF acc > ((U64Mod - 1) - DigitVal[Head(s)]) \div base
    THEN U64Mod
  ELSE AccDigits(Tail(s), base, acc * base + DigitVal[Head(s)])

\* strtoull(value, NULL, 0): blanks, a sign, then 0x.. | 0.. | decimal
\* digits; 0 when no digit is there; a '-' negates in unsigned long long;
\* ULLONG_MAX when the digits do not fit
strtoull(value) ==
  LET t    == Drop(value, strspn(value, Blank))
      neg  == t # <<>> /\ Head(t) = "-"
      u    == IF t # <<>> /\ Head(t) \in {"-", "+"} THEN Tail(t) ELSE t
      hex  == Len(u) >= 3 /\ u[1] = "0" /\ u[2] = "x" /\ IsDigit(u[3], 16)
      base == IF hex THEN 16 ELSE IF u # <<>> /\ u[1] = "0" THEN 8 ELSE 10
      d    == IF hex THEN Drop(u, 2) ELSE u
      n    == AccDigits(d, base, 0)
  IN  IF n = U64Mod THEN U64Mod - 1
      ELSE IF neg THEN (U64Mod - n) % U64Mod
      ELSE n

---------------------------------------------------------------------------
(* update_header_entry *)

\* the outcome of one config line: the condition it stopped with ("none"
\* when it was applied) and the image afterwards
Entry(e, i) == [err |-> e, img |-> i]

SetHdr(i, f, v) == [i EXCEPT !.header[f] = v]

\* strcpy of the value without the memset before it
cmdline_strcpy(i, value) ==
  IF Len(value) >= BOOT_ARGS_SIZE THEN Entry("CmdlineTooLong", i)
  ELSE Entry("none",
             SetHdr(i, "cmdline",
                    [j \in 1..BOOT_ARGS_SIZE |->
                       IF j <= Len(value) THEN value[j]
                       ELSE IF j = Len(value) + 1 THEN NUL
                       ELSE i.header.cmdline[j]]))

\* the cmdline branch: the length test, memset of the field, strcpy
cmdline_entry(i, value) ==
  IF Len(value) >= BOOT_ARGS_SIZE THEN Entry("CmdlineTooLong", i)
  ELSE Entry("none", SetHdr(i, "cmdline", Padded(value, BOOT_ARGS_SIZE)))

update_header_entry(i, cmdl) ==
  LET line     == Take(cmdl, strcspn(cmdl, {"\n"}))
      p0       == Drop(line, strspn(line, Blank))
      token    == Take(p0, strcspn(p0, {" ", "=", "\t"}))
      p1       == Drop(p0, Len(token))
      p2       == Drop(p1, strspn(p1, Blank))
      p3       == Drop(p2, 1)
      value    == Drop(p3, strspn(p3, Blank))
      valuenum == strtoull(value)
  IN
  IF p2 = <<>> \/ Head(p2) # "=" THEN Entry("BadConfigEntry", i)
  ELSE IF StrEq(token, <<"c", "m", "d", "l", "i", "n", "e">>)
    THEN cmdline_entry(i, value)
  ELSE IF StrnEq(token, <<"n", "a", "m", "e">>) THEN
    Entry("none",
          SetHdr(i, "name",
                 Padded(Take(value, BOOT_NAME_SIZE - 1), BOOT_NAME_SIZE)))
  ELSE IF StrnEq(token, <<"b", "o", "o", "t", "s", "i", "z", "e">>) THEN
    IF i.is_blkdev /\ i.size # valuenum
      THEN Entry("ImmutableBlockSize", i)
      ELSE Entry("none", [i EXCEPT !.size = U32(valuenum)])
  ELSE IF StrnEq(token, <<"p", "a", "g", "e", "s", "i", "z", "e">>) THEN
    Entry("none", SetHdr(i, "page_size", U32(valuenum)))
  ELSE IF StrnEq(token, <<"k", "e", "r", "n", "e", "l", "a", "d", "d", "r">>)
    THEN Entry("none", SetHdr(i, "kernel_addr", U32(valuenum)))
  ELSE IF StrnEq(token,
                 <<"r", "a", "m", "d", "i", "s", "k", "a", "d", "d", "r">>)
    THEN Entry("none", SetHdr(i, "ramdisk_addr", U32(valuenum)))
  ELSE IF StrnEq(token, <<"s", "e", "c", "o", "n", "d", "a", "d", "d", "r">>)
    THEN Entry("none", SetHdr(i, "second_addr", U32(valuenum)))
  ELSE IF StrnEq(token, <<"t", "a", "g", "s", "a", "d", "d", "r">>)
    THEN Entry("none", SetHdr(i, "tags_addr", U32(valuenum)))
  ELSE IF StrnEq(token, <<"r", "e", "c", "o", "v", "e", "r", "y", "d", "t",
                          "o", "b", "o", "o", "f", "f", "s">>)
    THEN Entry("none", SetHdr(i, "recovery_dtbo_offset", valuenum))
  ELSE IF StrnEq(token, <<"d", "t", "b", "a", "d", "d", "r">>)
    THEN Entry("none", SetHdr(i, "dtb_addr", valuenum))
  ELSE Entry("BadConfigEntry", i)

---------------------------------------------------------------------------
(* The header in memory (the union of boot_img_hdr_v0/v1/v2) and on disk *)

V0Fields == {"magic", "kernel_size", "kernel_addr", "ramdisk_size",
             "ramdisk_addr", "second_size", "second_addr", "tags_addr",
             "page_size", "header_version", "opaque", "name", "cmdline"}
V1Fields == {"recovery_dtbo_size", "recovery_dtbo_offset", "header_size"}
V2Fields == {"dtb_size", "dtb_addr"}

\* the header of a calloc'ed t_abootimg
ZeroHeader ==
  [magic |-> "", kernel_size |-> 0, kernel_addr |-> 0, ramdisk_size |-> 0,
   ramdisk_addr |-> 0, second_size |-> 0, second_addr |-> 0, tags_addr |-> 0,
   page_size |-> 0, header_version |-> 0, opaque |-> 0,
   name |-> Padded(<<>>, BOOT_NAME_SIZE),
   cmdline |-> Padded(<<>>, BOOT_ARGS_SIZE),
   recovery_dtbo_size |-> 0, recovery_dtbo_offset |-> 0, header_size |-> 0,
   dtb_size |-> 0, dtb_addr |-> 0]

\* A stream is [len, data]: data maps the offsets of its non-zero bytes to
\* cells, every other offset below len holds a zero byte.  A cell is a
\* payload byte <<"d", b>> or one of the three parts of a stored header:
\* the v0 structure at offset 0, the v1 fields at offset SizeofV0, the v2
\* fields at offset SizeofV1.
ZeroCell == <<"d", 0>>
Part(h, fields) == [f \in fields |-> h[f]]
V0Cell(h) == <<"v0", Part(h, V0Fields)>>
V1Cell(h) == <<"v1", Part(h, V1Fields)>>
V2Cell(h) == <<"v2", Part(h, V2Fields)>>

IsZeroCell(c) ==
  \/ c = ZeroCell
  \/ c = V1Cell(ZeroHeader)
  \/ c = V2Cell(ZeroHeader)

CellAt(t, o) == IF o \in DOMAIN t.data THEN t.data[o] ELSE ZeroCell

\* the bytes of a header, as fwrite(&img->header, n, 1, stream) sends them
HeaderCells(h, n) ==
  [j \in 1..n |-> IF j = 1 THEN V0Cell(h)
                  ELSE IF j = 2 THEN V1Cell(h) ELSE V2Cell(h)]

\* the byte a cell gives when it is read as payload; -1 stands for the
\* bytes of a header part
ByteOf(c) == IF c[1] = "d" THEN c[2] ELSE -1
Cells(bytes) == [j \in 1..Len(bytes) |-> <<"d", bytes[j]>>]

\* cells written at off .. off + Len(cells) - 1
PutCells(t, off, cells) ==
  LET n    == Len(cells)
      keep == {x \in DOMAIN t.data : x < off \/ x >= off + n}
      set  == {o \in off .. (off + n - 1) : ~IsZeroCell(cells[o - off + 1])}
  IN  [t EXCEPT
         !.len  = Max(t.len, off + n),
         !.data = [o \in keep \cup set |->
                     IF o \in keep THEN t.data[o] ELSE cells[o - off + 1]]]

\* n copies of cell c written at off
PutFill(t, off, n, c) ==
  LET keep == {x \in DOMAIN t.data : x < off \/ x >= off + n}
      set  == IF IsZeroCell(c) THEN {} ELSE off .. (off + n - 1)
  IN  [t EXCEPT
         !.len  = Max(t.len, off + n),
         !.data = [o \in keep \cup set |->
                     IF o \in keep THEN t.data[o] ELSE c]]

\* ftruncate(fd, n) on a regular file
Truncate(t, n) ==
  [t EXCEPT !.len  = n,
            !.data = [o \in {x \in DOMAIN t.data : x < n} |-> t.data[o]]]

\* fseek(off); fread(buf, n, 1, stream) == 1
CanRead(t, off, n) == n >= 1 /\ off + n <= t.len
ReadBytes(t, off, n) == [j \in 1..n |-> ByteOf(CellAt(t, off + j - 1))]

---------------------------------------------------------------------------
(* t_abootimg *)

NULL == <<>>

\* calloc + new_bootimg: magic set, page size 2048, everything else zero
DefaultPageSize == 2048

new_bootimg ==
  [size |-> 0, is_blkdev |-> FALSE,
   header |-> [ZeroHeader EXCEPT !.magic = BOOT_MAGIC,
                                 !.page_size = DefaultPageSize],
   kernel |-> NULL, ramdisk |-> NULL, second |-> NULL,
   dtbo |-> NULL, dtb |-> NULL]

\* result of a step that may abort: the condition, the image, the target
Res(e, i, t) == [err |-> e, img |-> i, t |-> t]

---------------------------------------------------------------------------
(* read_header *)

\* the fields a stored part gives back; bytes that are no such part give
\* every field the value of the byte found there
ReadPart(c, tag, fields, h) ==
  IF c[1] = tag THEN [f \in DOMAIN h |-> IF f \in fields THEN c[2][f] ELSE h[f]]
  ELSE IF c[1] = "d"
    THEN [f \in DOMAIN h |-> IF f \in fields THEN c[2] ELSE h[f]]
  ELSE [f \in DOMAIN h |-> IF f \in fields THEN -1 ELSE h[f]]

\* the v0 structure as read from offset 0: bytes that are no stored v0
\* structure give a header without the magic
ReadV0(c) ==
  IF c[1] = "v0" THEN ReadPart(c, "v0", V0Fields, ZeroHeader)
  ELSE [ZeroHeader EXCEPT !.magic = "?"]

\* the container size and kind, from fstat / BLKGETSIZE64 (img->size is
\* `unsigned`: the 64-bit size is cut to its width)
StatSize(i, t) == [i EXCEPT !.size = U32(t.len), !.is_blkdev = t.blk]

read_header(i, t) ==
  IF t.len < SizeofV0 THEN Res("TruncatedHeader", i, t)
  ELSE
    LET h0 == ReadV0(CellAt(t, 0))
        hs == boot_img_header_size(h0)
        h1 == IF hs >= SizeofV1
                THEN ReadPart(CellAt(t, SizeofV0), "v1", V1Fields, h0) ELSE h0
        h2 == IF hs >= SizeofV2
                THEN ReadPart(CellAt(t, SizeofV1), "v2", V2Fields, h1) ELSE h1
        i1 == StatSize([i EXCEPT !.header = h2], t)
        c  == check_boot_img_header(i1.header, i1.size)
    IN  IF hs > SizeofV0 /\ t.len < hs
          THEN Res("TruncatedHeader", [i EXCEPT !.header = h2], t)
        ELSE IF c.cond # "ok" THEN Res(c.cond, i1, t)
        ELSE Res("none", i1, t)

---------------------------------------------------------------------------
(* update_header: every line of the config file, then every -c argument *)

RECURSIVE update_header(_, _)
update_header(i, lines) ==
  IF lines = << >> THEN Entry("none", i)
  ELSE Force(update_header_entry(i, Head(lines)), LAMBDA e :
         IF e.err # "none" THEN e ELSE update_header(e.img, Tail(lines)))

---------------------------------------------------------------------------
(* update_images *)

\* st: [err, img, oc (offsets_changed), reads]
\* one `if (fname) {read_new_image_part} else if (offsets_changed && ..)
\* {read_original_image_part}` block of update_images
AssemblePart(st, t, src, sizef, buf, reread, osize, ooff) ==
  IF st.err # "none" THEN st
  ELSE IF src.given THEN
    IF src.data = <<>> THEN [st EXCEPT !.err = "ResourceFailure"]
    ELSE [st EXCEPT !.img.header[sizef] = U32(Len(src.data)),
                    !.img[buf] = src.data,
                    !.oc = TRUE]
  ELSE IF reread /\ st.oc /\ (buf = "ramdisk" \/ st.img.header[sizef] # 0) THEN
    IF CanRead(t, ooff, osize)
      THEN [st EXCEPT !.img[buf] = ReadBytes(t, ooff, osize),
                      !.reads = Append(@, [what |-> buf, off |-> ooff,
                                           n |-> osize])]
      ELSE [st EXCEPT !.err = "ShortRead"]
  ELSE st

\* a size check that lets a regular file take the size of the image
FitOrGrow(st) ==
  IF st.err # "none" THEN st
  ELSE IF st.img.size = 0 \/ (~st.img.is_blkdev
                               /\ total_size(st.img.header) > st.img.size)
    THEN [st EXCEPT !.img.size = total_size(st.img.header)]
  ELSE IF total_size(st.img.header) > st.img.size
    THEN [st EXCEPT !.err = "ImageTooSmall"]
  ELSE st

\* the closing size check of update_images
FitImage(st) ==
  IF st.err # "none" THEN st
  ELSE IF st.img.size = 0
    THEN [st EXCEPT !.img.size = total_size(st.img.header)]
  ELSE IF total_size(st.img.header) > st.img.size
    THEN [st EXCEPT !.err = "ImageTooSmall"]
  ELSE st

update_images(i, a, t) ==
  Force(i.header, LAMBDA h :
  Force([err |-> "none", img |-> i, oc |-> FALSE, reads |-> << >>], LAMBDA s0 :
  IF h.page_size = 0 THEN [s0 EXCEPT !.err = "ZeroPageSize"]
  ELSE
    Force(AssemblePart(s0, t, a.kernel, "kernel_size", "kernel",
                       FALSE, h.kernel_size, koffset(h)), LAMBDA s1 :
    Force(AssemblePart(s1, t, a.ramdisk, "ramdisk_size", "ramdisk",
                       TRUE, h.ramdisk_size, roffset(h)), LAMBDA s2 :
    Force(AssemblePart(s2, t, a.second, "second_size", "second",
                       TRUE, h.second_size, soffset(h)), LAMBDA s3 :
    Force(AssemblePart(s3, t, a.dtbo, "recovery_dtbo_size", "dtbo",
                       TRUE, h.recovery_dtbo_size, dooffset(h)), LAMBDA s4 :
    Force(AssemblePart(s4, t, a.dtb, "dtb_size", "dtb",
                       TRUE, h.dtb_size, doffset(h)), LAMBDA s5 :
    FitImage(s5)))))) ))

---------------------------------------------------------------------------
(* write_bootimg_part, write_bootimg *)

\* ws: [err, t, log, grp]; log: every fwrite as [what, off, n]; grp: the
\* index in log of the first fwrite after the latest fseek

\* fseek(stream, off): whatever was buffered before is flushed
Seek(ws) == [ws EXCEPT !.grp = Len(ws.log) + 1]

\* fwrite of n cells at off: c is the sequence of cells, or one cell that
\* is repeated n times.  A block device takes nothing past its capacity.
Fwrite(ws, what, off, n, c, fill) ==
  IF ws.err # "none" \/ n = 0 THEN ws
  ELSE
    LET fit == IF ws.t.blk THEN Max(0, Min(n, ws.t.len - off)) ELSE n
        t1  == IF fit = 0 THEN ws.t
               ELSE IF fill THEN PutFill(ws.t, off, fit, c)
               ELSE PutCells(ws.t, off, Take(c, fit))
    IN  [ws EXCEPT !.t   = t1,
                   !.err = IF fit < n THEN "WriteError" ELSE "none",
                   !.log = Append(@, [what |-> what, off |-> off, n |-> n])]

\* fwrite(padding, n, 1, stream) from the calloc(psize, 1) buffer.  n > psize
\* reads past the buffer.  What lies there is not the program's to know:
\* `ub` picks zero bytes, a byte of junk (-2) before zero bytes, or a process
\* that dies in the copy.
FwritePadding(ws, off, n, psize, ub) ==
  IF n <= psize THEN Fwrite(ws, "padding", off, n, ZeroCell, TRUE)
  ELSE IF ub = "crash"
    THEN [Fwrite(ws, "padding", off, psize, ZeroCell, TRUE) EXCEPT
            !.err = IF @ = "none" THEN "Crash" ELSE @]
  ELSE IF ub = "zeros" THEN Fwrite(ws, "padding", off, n, ZeroCell, TRUE)
  ELSE Force(Fwrite(ws, "padding", off, n, ZeroCell, TRUE), LAMBDA w1 :
         IF w1.err # "none" THEN w1
         ELSE [w1 EXCEPT !.t = PutCells(@, off + psize, << <<"d", -2>> >>)])

\* the stream calls of write_bootimg, in order, as records
OpSeek == [op |-> "seek", what |-> "", off |-> 0, n |-> 0, c |-> << >>]
OpWrite(what, off, n, c) ==
  [op |-> "write", what |-> what, off |-> off, n |-> n, c |-> c]
OpPad(off, n) == [op |-> "pad", what |-> "padding", off |-> off, n |-> n,
                  c |-> << >>]

\* the bytes of padding write_bootimg_part puts after a part
PartPadding(size, psize) == psize - (size % psize)

write_bootimg_part(what, part, offset, size, psize) ==
  << OpSeek,
     OpWrite(what, offset, size, Cells(Take(part, size))),
     OpPad(offset + size, PartPadding(size, psize)) >>

\* the bytes of padding write_bootimg puts after the header
HeaderPadding(psize, header_size) == U32(psize - header_size)

\* fseek(0), the header in the size of its version, the padding after it
write_header(h) ==
  LET hsize == boot_img_header_size(h)
  IN  << OpSeek,
         OpWrite("header", 0, hsize, HeaderCells(h, hsize)),
         OpPad(hsize, HeaderPadding(h.page_size, hsize)) >>

WriteOps(i) ==
  LET h     == i.header
      psize == h.page_size
      n     == KernelPages(h)
      m     == RamdiskPages(h)
      o     == SecondPages(h)
      p     == DtboPages(h)
  IN  write_header(h)
      \o (IF i.kernel # NULL
            THEN write_bootimg_part("kernel", i.kernel,
                                    PageOffset(1, psize), h.kernel_size, psize)
            ELSE << >>)
      \o (IF i.ramdisk # NULL
            THEN write_bootimg_part("ramdisk", i.ramdisk,
                                    PageOffset(1 + n, psize),
                                    h.ramdisk_size, psize)
            ELSE << >>)
      \o (IF i.second # NULL /\ h.second_size # 0
            THEN write_bootimg_part("second", i.second,
                                    PageOffset(1 + n + m, psize),
                                    h.second_size, psize)
            ELSE << >>)
      \o (IF i.dtbo # NULL /\ h.recovery_dtbo_size # 0
            THEN write_bootimg_part("dtbo", i.dtbo,
                                    PageOffset(1 + n + m + o, psize),
                                    h.recovery_dtbo_size, psize)
            ELSE << >>)
      \o (IF i.dtb # NULL /\ h.dtb_size # 0
            THEN write_bootimg_part("dtb", i.dtb,
                                    PageOffset(1 + n + m + o + p, psize),
                                    h.dtb_size, psize)
            ELSE << >>)

DoOp(ws, o, psize, ub) ==
  IF o.op = "seek" THEN Seek(ws)
  ELSE IF o.op = "write" THEN Fwrite(ws, o.what, o.off, o.n, o.c, FALSE)
  ELSE FwritePadding(ws, o.off, o.n, psize, ub)

\* every failed call ends the run (abort_perror): the rest is not made
RECURSIVE RunOps(_, _, _, _, _)
RunOps(ws, ops, k, psize, ub) ==
  IF k > Len(ops) \/ ws.err # "none" THEN ws
  ELSE Force(DoOp(ws, ops[k], psize, ub),
             LAMBDA w : RunOps(w, ops, k + 1, psize, ub))

\* the fwrites log[from..] made again on t with the bytes they put in src:
\* what exit() flushes when they were still buffered at the ftruncate
RECURSIVE Replay(_, _, _, _)
Replay(t, log, from, src) ==
  IF from > Len(log) THEN t
  ELSE
    Force(log[from], LAMBDA w :
    Force([t EXCEPT
             !.len  = Max(t.len, w.off + w.n),
             !.data = [o \in {x \in DOMAIN t.data :
                                x < w.off \/ x >= w.off + w.n}
                             \cup {x \in DOMAIN src.data :
                                     x >= w.off /\ x < w.off + w.n} |->
                         IF o >= w.off /\ o < w.off + w.n
                           THEN src.data[o] ELSE t.data[o]]],
          LAMBDA t1 : Replay(t1, log, from + 1, src)))

\* ftruncate(fileno(stream), img->size); a block device is not cut
Ftruncate(ws, t, size, late) ==
  IF ws.err # "none" \/ t.blk THEN ws
  ELSE IF late
    THEN [ws EXCEPT !.t = Replay(Truncate(ws.t, size), ws.log, ws.grp, ws.t)]
  ELSE [ws EXCEPT !.t = Truncate(ws.t, size)]

\* ub: the outcome of reading past the padding buffer; late: the fwrites
\* after the last fseek reach the file only after the ftruncate
write_bootimg(i, t, ub, late) ==
  Force(WriteOps(i), LAMBDA ops :
    Force(RunOps([err |-> "none", t |-> t, log |-> << >>, grp |-> 1],
                 ops, 1, i.header.page_size, ub),
          LAMBDA w : Ftruncate(w, t, i.size, late)))

-----
(* write_bootimg_config, extract_part *)

HexDigit == <<"0", "1", "2", "3", "4", "5", "6", "7", "8", "9",
              "a", "b", "c", "d", "e", "f">>

\* printf("%x", n)
RECURSIVE Hex(_)
Hex(n) == IF n < 16 THEN <<HexDigit[n + 1]>>
          ELSE Hex(n \div 16) \o <<HexDigit[(n % 16) + 1]>>

HexLine(key, n) == key \o <<" ", "=", " ", "0", "x">> \o Hex(n) \o <<"\n">>
StrLine(key, str) == key \o <<" ", "=", " ">> \o str \o <<"\n">>

\* printf("%s", name): name is followed in the structure by cmdline, so a
\* name without a terminator runs on into it
write_bootimg_config(i) ==
  LET h == i.header
  IN  << HexLine(<<"b", "o", "o", "t", "s", "i", "z", "e">>, i.size),
         HexLine(<<"p", "a", "g", "e", "s", "i", "z", "e">>, h.page_size),
         HexLine(<<"k", "e", "r", "n", "e", "l", "a", "d", "d", "r">>,
                 h.kernel_addr),
         HexLine(<<"r", "a", "m", "d", "i", "s", "k", "a", "d", "d", "r">>,
                 h.ramdisk_addr),
         HexLine(<<"s", "e", "c", "o", "n", "d", "a", "d", "d", "r">>,
                 h.second_addr),
         HexLine(<<"t", "a", "g", "s", "a", "d", "d", "r">>, h.tags_addr),
         HexLine(<<"r", "e", "c", "o", "v", "e", "r", "y", "d", "t", "o",
                   "b", "o", "o", "f", "f", "s">>, h.recovery_dtbo_offset),
         HexLine(<<"d", "t", "b", "a", "d", "d", "r">>, h.dtb_addr),
         StrLine(<<"n", "a", "m", "e">>, CStr(h.name \o h.cmdline)),
         StrLine(<<"c", "m", "d", "l", "i", "n", "e">>, CStr(h.cmdline)) >>

\* the bytes of the config file: what the fprintf calls sent, in order
RECURSIVE ConfigFile(_)
ConfigFile(prints) ==
  IF prints = << >> THEN << >> ELSE Head(prints) \o ConfigFile(Tail(prints))

\* the lines getline gives of a file, each with its newline when it has one
RECURSIVE getlines(_)
getlines(file) ==
  IF file = << >> THEN << >>
  ELSE LET n == Min(Len(file), strcspn(file, {"\n"}) + 1)
       IN  <<Take(file, n)>> \o getlines(Drop(file, n))

---------------------------------------------------------------------------
(* main: one step per call it makes *)

Abort(cond) == /\ pc' = "aborted"
               /\ err' = cond

\* parse_args answered `create` without both -k and -r: usage, nothing else
Usage ==
  /\ pc = "start" /\ cmd = "create"
  /\ ~(args.kernel.given /\ args.ramdisk.given)
  /\ Abort("Usage")
  /\ UNCHANGED <<cmd, img, args, target, target0, img0, wlog, rlog, outs>>

\* check_if_block_device (built with HAS_BLKID): an absent target is fine,
\* a block device has its capacity recorded and must hold no filesystem
CheckIfBlockDevice ==
  /\ pc = "start" /\ cmd = "create"
  /\ args.kernel.given /\ args.ramdisk.given
  /\ img0' = img
  /\ IF target.exists /\ target.blk
       THEN IF target.fs
              THEN /\ Abort("ValidPartition")
                   /\ img' = [img EXCEPT !.is_blkdev = TRUE]
              ELSE /\ pc' = "probed" /\ err' = err
                   /\ img' = [img EXCEPT !.is_blkdev = TRUE,
                                         !.size = U32(target.len)]
       ELSE /\ pc' = "probed" /\ err' = err
            /\ img' = img
  /\ UNCHANGED <<cmd, args, target, target0, wlog, rlog, outs>>

\* open_bootimg: fopen(fname, "w") for create makes the file or cuts it to
\* length 0 (a block device keeps its bytes); "r" and "r+" need it to exist
OpenBootimg ==
  /\ \/ pc = "probed" /\ cmd = "create"
     \/ pc = "start" /\ cmd \in {"info", "extract", "update"}
  /\ IF cmd = "create"
       THEN /\ pc' = "opened" /\ err' = err
            /\ target' = IF ~target.exists
                           THEN [target EXCEPT !.exists = TRUE]
                         ELSE IF target.blk THEN target
                         ELSE Truncate(target, 0)
       ELSE /\ IF target.exists THEN pc' = "opened" /\ err' = err
                                ELSE Abort("ResourceFailure")
            /\ target' = target
  /\ UNCHANGED <<cmd, img, args, target0, img0, wlog, rlog, outs>>

\* a read_header whose caller goes on whatever it found
ReadHeaderSoft ==
  /\ pc = "opened" /\ cmd \in {"info", "extract", "update"}
  /\ \E r \in {read_header(img, target)} :
         /\ img' = r.img
         /\ pc' = "decoded" /\ err' = err
  /\ img0' = img
  /\ UNCHANGED <<cmd, args, target, target0, wlog, rlog, outs>>

ReadHeader ==
  /\ pc = "opened" /\ cmd \in {"info", "extract", "update"}
  /\ \E r \in {read_header(img, target)} :
         /\ img' = r.img
         /\ IF r.err = "none" THEN pc' = "decoded" /\ err' = err
                              ELSE Abort(r.err)
  /\ img0' = img
  /\ UNCHANGED <<cmd, args, target, target0, wlog, rlog, outs>>

UpdateHeader ==
  /\ \/ pc = "decoded" /\ cmd = "update"
     \/ pc = "opened" /\ cmd = "create"
  /\ \E e \in {update_header(img, args.config)} :
         /\ img' = e.img
         /\ IF e.err = "none" THEN pc' = "patched" /\ err' = err
                              ELSE Abort(e.err)
  /\ img0' = img
  /\ UNCHANGED <<cmd, args, target, target0, wlog, rlog, outs>>

UpdateImages ==
  /\ pc = "patched"
  /\ \E st \in {update_images(img, args, target)} :
         /\ img' = st.img
         /\ rlog' = st.reads
         /\ IF st.err = "none" THEN pc' = "assembled" /\ err' = err
                               ELSE Abort(st.err)
  /\ img0' = img
  /\ UNCHANGED <<cmd, args, target, target0, wlog, outs>>

UpdateHeaderVersion ==
  /\ pc = "assembled"
  /\ img' = [img EXCEPT !.header = update_header_version(img.header)]
  /\ img0' = img
  /\ pc' = "promoted"
  /\ UNCHANGED <<cmd, err, args, target, target0, wlog, rlog, outs>>

\* create only: check_boot_img_header before the image is written
CheckHeader ==
  /\ pc = "promoted" /\ cmd = "create"
  /\ LET c == check_boot_img_header(img.header, img.size)
     IN  IF c.cond = "ok" THEN pc' = "checked" /\ err' = err
                          ELSE Abort(c.cond)
  /\ UNCHANGED <<cmd, img, args, target, target0, img0, wlog, rlog, outs>>

WriteBootimg ==
  /\ \/ pc = "promoted" /\ cmd = "update"
     \/ pc = "checked" /\ cmd = "create"
  /\ \E ub \in {"crash", "zeros", "junk"}, late \in BOOLEAN :
       \E ws \in {write_bootimg(img, target, ub, late)} :
           /\ target' = ws.t
           /\ wlog' = ws.log
           /\ IF ws.err = "none" THEN pc' = "done" /\ err' = err
                                 ELSE Abort(ws.err)
  /\ UNCHANGED <<cmd, img, args, target0, img0, rlog, outs>>

PrintBootimgInfo ==
  /\ pc = "decoded" /\ cmd = "info"
  /\ pc' = "done"
  /\ UNCHANGED <<cmd, err, img, args, target, target0, img0, wlog, rlog, outs>>

WriteBootimgConfig ==
  /\ pc = "decoded" /\ cmd = "extract"
  /\ outs' = [outs EXCEPT !.config = write_bootimg_config(img)]
  /\ pc' = "dumped"
  /\ UNCHANGED <<cmd, err, img, args, target, target0, img0, wlog, rlog>>

\* extract_part: fseek, fread of size bytes, written to a file of its own
ExtractPart(from, to, what, present, size, offset) ==
  /\ pc = from /\ cmd = "extract"
  /\ IF ~present
       THEN /\ pc' = to /\ err' = err
            /\ UNCHANGED <<rlog, outs>>
       ELSE /\ rlog' = Append(rlog, [what |-> what, off |-> offset, n |-> size])
            /\ IF CanRead(target, offset, size)
                 THEN /\ pc' = to /\ err' = err
                      /\ outs' = [outs EXCEPT
                                    ![what] = ReadBytes(target, offset, size)]
                 ELSE /\ Abort("ShortRead")
                      /\ outs' = outs
  /\ UNCHANGED <<cmd, img, args, target, target0, img0, wlog>>

ExtractKernel ==
  ExtractPart("dumped", "x_kernel", "kernel", TRUE,
              img.header.kernel_size, koffset(img.header))
ExtractRamdisk ==
  ExtractPart("x_kernel", "x_ramdisk", "ramdisk", TRUE,
              img.header.ramdisk_size, roffset(img.header))
ExtractSecond ==
  ExtractPart("x_ramdisk", "x_second", "second", img.header.second_size # 0,
              img.header.second_size, soffset(img.header))
ExtractDtbo ==
  ExtractPart("x_second", "x_dtbo", "dtbo",
              img.header.recovery_dtbo_size # 0,
              img.header.recovery_dtbo_size, dooffset(img.header))
ExtractDtb ==
  ExtractPart("x_dtbo", "done", "dtb", img.header.dtb_size # 0,
              img.header.dtb_size, doffset(img.header))

---------------------------------------------------------------------------
(* The inputs of one run: the command, the target, the arguments *)

\* how many config lines (-f file lines, then -c arguments) one run is given
MaxCfgLines == 1

\* payload byte j of the file with this tag
Bytes(tag, n) == [j \in 1..n |-> 10 * tag + j]

Hdr(ver, P, k, r, s, o, d) ==
  [ZeroHeader EXCEPT
     !.magic = BOOT_MAGIC, !.page_size = P, !.header_version = ver,
     !.header_size = IF ver = 0 THEN 0
                     ELSE IF ver = 1 THEN SizeofV1 ELSE SizeofV2,
     !.kernel_size = k, !.ramdisk_size = r, !.second_size = s,
     !.recovery_dtbo_size = o, !.dtb_size = d,
     !.kernel_addr = 1, !.ramdisk_addr = 2, !.second_addr = 3,
     !.tags_addr = 4, !.opaque = 7,
     !.recovery_dtbo_offset = IF ver >= 1 THEN 5 ELSE 0,
     !.dtb_addr = IF ver >= 2 THEN 6 ELSE 0,
     !.name = Padded(<<"b">>, BOOT_NAME_SIZE),
     !.cmdline = Padded(<<"q", "r", "s">>, BOOT_ARGS_SIZE)]

\* the image file a correct builder makes of header h: the header parts of
\* its version, then each region on the page after the one before it
CeilDiv(x, P) == (x + P - 1) \div P

EmptyStream == [exists |-> TRUE, blk |-> FALSE, fs |-> FALSE,
                len |-> 0, data |-> << >>]

MkImage(h) ==
  LET P  == h.page_size
      ko == P
      ro == ko + P * CeilDiv(h.kernel_size, P)
      so == ro + P * CeilDiv(h.ramdisk_size, P)
      oo == so + P * CeilDiv(h.second_size, P)
      do == oo + P * CeilDiv(h.recovery_dtbo_size, P)
      t0 == PutCells(EmptyStream, 0,
                     HeaderCells(h, boot_img_header_size(h)))
      t1 == PutCells(t0, ko, Cells(Bytes(1, h.kernel_size)))
      t2 == PutCells(t1, ro, Cells(Bytes(2, h.ramdisk_size)))
      t3 == PutCells(t2, so, Cells(Bytes(3, h.second_size)))
      t4 == PutCells(t3, oo, Cells(Bytes(4, h.recovery_dtbo_size)))
      t5 == PutCells(t4, do, Cells(Bytes(5, h.dtb_size)))
  IN  [t5 EXCEPT !.len = do + P * CeilDiv(h.dtb_size, P)]

ValidHeaders ==
  { Hdr(0, 4, 5, 3, 0, 0, 0),
    Hdr(0, 4, 4, 1, 2, 0, 0),
    Hdr(0, 2, 3, 1, 0, 0, 0),
    Hdr(1, 4, 1, 4, 0, 2, 0),
    Hdr(2, 4, 2, 2, 1, 1, 3) }

\* a file whose header check_boot_img_header accepts because the total of
\* its six pages of WrapPageSize bytes, taken in `unsigned`, is 2
WrapPageSize == (2 * UintMod + 2) \div 6

WrapImage ==
  LET h == Hdr(2, 4, 2, 2, 1, 1, 3)
  IN  [MkImage(h) EXCEPT
         !.data[0] = V0Cell([h EXCEPT !.page_size = WrapPageSize])]

\* a valid image as a regular file; the first one also as a block device,
\* with room after it, and at the start of one larger than `unsigned` holds
ValidTargets ==
  { MkImage(h) : h \in ValidHeaders }
  \cup
  { [MkImage(Hdr(0, 4, 5, 3, 0, 0, 0)) EXCEPT !.len = @ + room, !.blk = b] :
      room \in {0, 8}, b \in BOOLEAN }
  \cup
  { [MkImage(Hdr(0, 4, 5, 3, 0, 0, 0)) EXCEPT !.len = UintMod + 16, !.blk = b] :
      b \in BOOLEAN }
  \cup
  { WrapImage }

\* files that are not images, or whose header does not describe them
BadTargets ==
  LET g == Hdr(0, 4, 5, 3, 0, 0, 0)
      v == Hdr(1, 4, 1, 4, 0, 2, 0)
  IN  { MkImage([g EXCEPT !.magic = "ANDROID?"]),
        [MkImage(g) EXCEPT !.data[0] = V0Cell([g EXCEPT !.header_version = 3])],
        [MkImage(v) EXCEPT !.data[1] = V1Cell([v EXCEPT !.header_size = SizeofV2])],
        [MkImage(g) EXCEPT !.data[0] = V0Cell([g EXCEPT !.kernel_size = 0])],
        [MkImage(g) EXCEPT !.data[0] = V0Cell([g EXCEPT !.ramdisk_size = 0])],
        [MkImage(g) EXCEPT !.data[0] = V0Cell([g EXCEPT !.page_size = 0])],
        [MkImage(g) EXCEPT !.data[0] =
           V0Cell([g EXCEPT !.kernel_size = UintMod - 1])],
        Truncate(MkImage(g), 8),
        Truncate(MkImage(v), 1),
        EmptyStream }

NoTarget == [EmptyStream EXCEPT !.exists = FALSE]

CreateTargets ==
  { NoTarget,
    MkImage(Hdr(0, 4, 5, 3, 0, 0, 0)),
    [MkImage(Hdr(0, 4, 5, 3, 0, 0, 0)) EXCEPT !.blk = TRUE],
    [EmptyStream EXCEPT !.blk = TRUE, !.len = 3 * DefaultPageSize],
    [EmptyStream EXCEPT !.blk = TRUE, !.len = 4 * DefaultPageSize,
                        !.fs = TRUE],
    [EmptyStream EXCEPT !.blk = TRUE,
                        !.len = UintMod + 3 * DefaultPageSize] }

NoSrc == [given |-> FALSE, data |-> << >>]
Src(tag, n) == [given |-> TRUE, data |-> Bytes(tag, n)]

Sources(k, r, s, o, d) ==
  [kernel |-> k, ramdisk |-> r, second |-> s, dtbo |-> o, dtb |-> d]

SourceSets ==
  { Sources(NoSrc, NoSrc, NoSrc, NoSrc, NoSrc),
    Sources(Src(6, 9), NoSrc, NoSrc, NoSrc, NoSrc),
    Sources(Src(6, 1), NoSrc, NoSrc, NoSrc, NoSrc),
    Sources(NoSrc, Src(7, 4), NoSrc, NoSrc, NoSrc),
    Sources(NoSrc, NoSrc, Src(8, 2), NoSrc, NoSrc),
    Sources(NoSrc, NoSrc, NoSrc, Src(9, 1), NoSrc),
    Sources(NoSrc, NoSrc, NoSrc, NoSrc, Src(10, 4)),
    Sources(Src(6, 4), Src(7, 4), NoSrc, NoSrc, NoSrc),
    Sources(Src(6, 5), Src(7, 3), NoSrc, Src(9, 1), NoSrc),
    Sources(Src(6, 2), Src(7, 1), Src(8, 1), Src(9, 2), Src(10, 1)),
    Sources(Src(6, 0), Src(7, 1), NoSrc, NoSrc, NoSrc) }

\* config lines given to the update and create flows
FlowLines ==
  { <<"p", "a", "g", "e", "s", "i", "z", "e", " ", "=", " ", "8", "\n">>,
    <<"p", "a", "g", "e", "s", "i", "z", "e", "=", "2", "\n">>,
    <<"p", "a", "g", "e", "s", "i", "z", "e", "=", "0", "\n">>,
    <<"b", "o", "o", "t", "s", "i", "z", "e", " ", "=", " ", "6", "4", "\n">>,
    <<"b", "o", "o", "t", "s", "i", "z", "e", "=",
      "3", "2", "7", "8", "4", "\n">>,
    <<"b", "o", "o", "t", "s", "i", "z", "e", "=", "0", "\n">>,
    <<"c", "m", "d", "l", "i", "n", "e", " ", "=", " ", "a", "\n">>,
    <<"f", "o", "o", "=", "1", "\n">> }

RECURSIVE SeqsUpTo(_, _)
SeqsUpTo(S, n) ==
  IF n = 0 THEN { << >> }
  ELSE LET shorter == SeqsUpTo(S, n - 1)
       IN  shorter \cup { Append(q, x) : q \in shorter, x \in S }

NoArguments ==
  [kernel |-> NoSrc, ramdisk |-> NoSrc, second |-> NoSrc,
   dtbo |-> NoSrc, dtb |-> NoSrc, config |-> << >>]

Arguments ==
  { [kernel |-> a.kernel, ramdisk |-> a.ramdisk, second |-> a.second,
     dtbo |-> a.dtbo, dtb |-> a.dtb, config |-> l] :
      a \in SourceSets, l \in SeqsUpTo(FlowLines, MaxCfgLines) }

\* the command lines run: the four commands on what they can be pointed at
Runs ==
  ({"info", "extract"} \X (ValidTargets \cup BadTargets \cup {NoTarget})
                       \X {NoArguments})
  \cup ({"update"} \X ValidTargets \X Arguments)
  \cup ({"update"} \X (BadTargets \cup {NoTarget}) \X {NoArguments})
  \cup ({"create"} \X CreateTargets \X Arguments)

NoOuts == [config |-> << >>, kernel |-> << >>, ramdisk |-> << >>,
           second |-> << >>, dtbo |-> << >>, dtb |-> << >>]

Init ==
  /\ \E run \in Runs :
       /\ cmd = run[1]
       /\ target = run[2]
       /\ args = run[3]
  /\ pc = "start"
  /\ err = "none"
  /\ img = new_bootimg
  /\ target0 = target
  /\ img0 = img
  /\ wlog = << >>
  /\ rlog = << >>
  /\ outs = NoOuts

Next ==
  \/ Usage
  \/ CheckIfBlockDevice
  \/ OpenBootimg
  \/ ReadHeader
  \/ UpdateHeader
  \/ UpdateImages
  \/ UpdateHeaderVersion
  \/ CheckHeader
  \/ WriteBootimg
  \/ PrintBootimgInfo
  \/ WriteBootimgConfig
  \/ ExtractKernel
  \/ ExtractRamdisk
  \/ ExtractSecond
  \/ ExtractDtbo
  \/ ExtractDtb

Spec == Init /\ [][Next]_vars


---------------------------------------------------------------------------
(* The functions on their own: one call on a drawn input *)

\* the longest cmdline value drawn
MaxCmdline == 5

Keys ==
  { <<"c", "m", "d", "l", "i", "n", "e">>,
    <<"n", "a", "m", "e">>,
    <<"b", "o", "o", "t", "s", "i", "z", "e">>,
    <<"p", "a", "g", "e", "s", "i", "z", "e">>,
    <<"k", "e", "r", "n", "e", "l", "a", "d", "d", "r">>,
    <<"r", "a", "m", "d", "i", "s", "k", "a", "d", "d", "r">>,
    <<"s", "e", "c", "o", "n", "d", "a", "d", "d", "r">>,
    <<"t", "a", "g", "s", "a", "d", "d", "r">>,
    <<"r", "e", "c", "o", "v", "e", "r", "y", "d", "t", "o", "b", "o", "o",
      "f", "f", "s">>,
    <<"d", "t", "b", "a", "d", "d", "r">> }

\* key tokens: the keys, the keys with a character more or less, others
Tokens ==
  Keys \cup { k \o <<"X">> : k \in Keys }
       \cup { Take(k, Len(k) - 1) : k \in Keys }
       \cup { <<"f", "o", "o">>, << >> }

\* what stands between the token and the value
Separators == { <<"=">>, <<" ", "=", " ">>, <<"\t", "=">>, <<" ">>, << >> }

NumValues ==
  { <<"9">>, <<"0", "x", "1", "0">>, <<"0", "1", "0">>, <<"1", "6">>,
    <<"-", "1">>, << >>,
    <<"9", "9", "9", "9", "9", "9", "9", "9", "9", "9">> }

CmdChars == {"a", " ", "\t"}

\* the strings of at most MaxCmdline characters given as cmdline values
CmdValues == UNION { [1..n -> CmdChars] : n \in 0..MaxCmdline }

CmdlinePrefix == <<"c", "m", "d", "l", "i", "n", "e", " ", "=", " ">>

UnitLines ==
  { tok \o sep \o v \o <<"\n">> :
      tok \in Tokens, sep \in Separators, v \in NumValues }
  \cup { CmdlinePrefix \o v : v \in CmdValues }
  \cup { << >>, <<"\n">>, <<"=">> }

\* images update_header_entry is called on: a file and a block device
UnitImages ==
  { [new_bootimg EXCEPT !.header = Hdr(2, 4, 5, 3, 0, 1, 2),
                        !.size = 16, !.is_blkdev = b] : b \in BOOLEAN }

\* headers and container sizes given to check_boot_img_header
CheckInputs ==
  { [new_bootimg EXCEPT
       !.header = [Hdr(ver, P, k, r, 0, 0, 0) EXCEPT !.magic = m,
                                                     !.header_size = hs],
       !.size = sz] :
      m \in {BOOT_MAGIC, "ANDROID?"}, ver \in 0..3,
      hs \in {SizeofV1, SizeofV2}, k \in {0, 5}, r \in {0, 3},
      P \in {0, 4}, sz \in {8, 16} }

\* headers given to update_header_version
PromoteInputs ==
  { [new_bootimg EXCEPT
       !.header = [Hdr(ver, 4, 5, 3, 0, o, d) EXCEPT !.header_size = hs] ] :
      ver \in 0..3, o \in {0, 2}, d \in {0, 3},
      hs \in {0, SizeofV1, SizeofV2} }

\* sizes and page sizes given to the layout: small ones, the default page
\* size with a 5000-byte kernel and a 3000-byte ramdisk, the largest values
LayoutInputs ==
  { [new_bootimg EXCEPT !.header = Hdr(0, P, k, r, s, o, d)] :
      P \in {1, 4, DefaultPageSize, UintMod - 1},
      k \in {0, 1, 4, 5, 3000, 5000, UintMod - 1},
      r \in {0, 1, 4, 5, 3000, 5000, UintMod - 1},
      s \in {0, 5}, o \in {0, 5}, d \in {0, 5} }

\* decoded images given to write_bootimg_config: names and command lines
\* that are empty, plain, begin with a blank or hold one, a name that
\* fills its field; the largest addresses and offsets; file and device
DumpNames ==
  { Padded(<<"b">>, BOOT_NAME_SIZE), Padded(<< >>, BOOT_NAME_SIZE),
    Padded(<<" ", "b">>, BOOT_NAME_SIZE), <<"b", "c", "d">> }

DumpCmdlines ==
  { Padded(<<"q", "r", "s">>, BOOT_ARGS_SIZE), Padded(<< >>, BOOT_ARGS_SIZE),
    Padded(<<" ", "q">>, BOOT_ARGS_SIZE),
    Padded(<<"q", " ", "r">>, BOOT_ARGS_SIZE) }

DumpInputs ==
  { [new_bootimg EXCEPT
       !.header = [Hdr(2, 4, 5, 3, 0, 1, 2) EXCEPT
                     !.name = nm, !.cmdline = cl,
                     !.kernel_addr = a, !.tags_addr = UintMod - a,
                     !.recovery_dtbo_offset = w, !.dtb_addr = U64Mod - w],
       !.size = sz, !.is_blkdev = b] :
      nm \in DumpNames, cl \in DumpCmdlines, a \in {1, UintMod - 1},
      w \in {1, U64Mod - 1}, sz \in {24, UintMod - 1}, b \in BOOLEAN }

InitUnit ==
  /\ \/ cmd = "check_boot_img_header" /\ img \in CheckInputs
        /\ args = NoArguments
     \/ cmd = "write_bootimg_config" /\ img \in DumpInputs
        /\ args = NoArguments
     \/ cmd = "update_header_version" /\ img \in PromoteInputs
        /\ args = NoArguments
     \/ cmd = "layout" /\ img \in LayoutInputs /\ args = NoArguments
     \/ cmd = "update_header_entry" /\ img \in UnitImages
        /\ \E l \in UnitLines : args = [NoArguments EXCEPT !.config = <<l>>]
  /\ pc = "start"
  /\ err = "none"
  /\ target = NoTarget
  /\ target0 = NoTarget
  /\ img0 = img
  /\ wlog = << >>
  /\ rlog = << >>
  /\ outs = NoOuts

\* check_boot_img_header on the drawn header: it aborts or returns
CallCheck ==
  /\ pc = "start" /\ cmd = "check_boot_img_header"
  /\ LET c == check_boot_img_header(img.header, img.size)
     IN  /\ err' = c.cond
         /\ pc' = IF c.abort THEN "aborted" ELSE "returned"
  /\ UNCHANGED <<cmd, img, args, target, target0, img0, wlog, rlog, outs>>

\* update_header_version, called once and then once more on its result
CallPromote ==
  /\ pc \in {"start", "done"} /\ cmd = "update_header_version"
  /\ img' = [img EXCEPT !.header = update_header_version(img.header)]
  /\ img0' = img
  /\ pc' = IF pc = "start" THEN "done" ELSE "again"
  /\ UNCHANGED <<cmd, err, args, target, target0, wlog, rlog, outs>>

\* the offsets write_bootimg seeks to and the total size, for the header
CallLayout ==
  /\ pc = "start" /\ cmd = "layout"
  /\ img.header.page_size # 0
  /\ wlog' = << [what |-> "kernel",  off |-> koffset(img.header),
                 n |-> img.header.kernel_size],
                [what |-> "ramdisk", off |-> roffset(img.header),
                 n |-> img.header.ramdisk_size],
                [what |-> "second",  off |-> soffset(img.header),
                 n |-> img.header.second_size],
                [what |-> "dtbo",    off |-> dooffset(img.header),
                 n |-> img.header.recovery_dtbo_size],
                [what |-> "dtb",     off |-> doffset(img.header),
                 n |-> img.header.dtb_size],
                [what |-> "total",   off |-> total_size(img.header),
                 n |-> 0] >>
  /\ pc' = "done"
  /\ UNCHANGED <<cmd, err, img, args, target, target0, img0, rlog, outs>>

\* update_header_entry on the drawn line
CallEntry ==
  /\ pc = "start" /\ cmd = "update_header_entry"
  /\ \E e \in {update_header_entry(img, args.config[1])} :
       /\ img' = e.img
       /\ err' = e.err
       /\ pc' = IF e.err = "none" THEN "done" ELSE "aborted"
  /\ img0' = img
  /\ UNCHANGED <<cmd, args, target, target0, wlog, rlog, outs>>

\* write_bootimg_config on the drawn image
CallDump ==
  /\ pc = "start" /\ cmd = "write_bootimg_config"
  /\ outs' = [outs EXCEPT !.config = write_bootimg_config(img)]
  /\ pc' = "dumped"
  /\ UNCHANGED <<cmd, err, img, args, target, target0, img0, wlog, rlog>>

\* update_header on the same image, with the file just written as -f
CallReadBack ==
  /\ pc = "dumped" /\ cmd = "write_bootimg_config"
  /\ \E e \in {update_header(img, getlines(ConfigFile(outs.config)))} :
       /\ img' = e.img
       /\ err' = e.err
       /\ pc' = IF e.err = "none" THEN "done" ELSE "aborted"
  /\ img0' = img
  /\ UNCHANGED <<cmd, args, target, target0, wlog, rlog, outs>>

NextUnit ==
  CallCheck \/ CallPromote \/ CallLayout \/ CallEntry \/ CallDump
    \/ CallReadBack

SpecUnit == InitUnit /\ [][NextUnit]_vars

---------------------------------------------------------------------------
(* Properties of the update and create flows *)

Regions == {"kernel", "ramdisk", "second", "dtbo", "dtb"}

SizeOf(h, r) ==
  CASE r = "kernel"  -> h.kernel_size
    [] r = "ramdisk" -> h.ramdisk_size
    [] r = "second"  -> h.second_size
    [] r = "dtbo"    -> h.recovery_dtbo_size
    [] r = "dtb"     -> h.dtb_size

OffsetOf(h, r) ==
  CASE r = "kernel"  -> koffset(h)
    [] r = "ramdisk" -> roffset(h)
    [] r = "second"  -> soffset(h)
    [] r = "dtbo"    -> dooffset(h)
    [] r = "dtb"     -> doffset(h)

\* the header the target held when the command started
OrigHeader == read_header(new_bootimg, target0).img.header

Updated == cmd = "update" /\ pc = "done" /\ err = "none"

\* C1: after a successful update every region that the original image held
\* and that no option replaced lies in the written image at the offset the
\* written header gives it, byte for byte as it was in the original image.
C1_UnreplacedRegionsKept ==
  Updated =>
    \A r \in Regions :
      (SizeOf(OrigHeader, r) > 0 /\ ~args[r].given) =>
        /\ SizeOf(img.header, r) = SizeOf(OrigHeader, r)
        /\ ReadBytes(target, OffsetOf(img.header, r), SizeOf(OrigHeader, r))
             = ReadBytes(target0, OffsetOf(OrigHeader, r),
                         SizeOf(OrigHeader, r))

Rejections ==
  {"BadMagic", "UnsupportedVersion", "HeaderSizeMismatch", "BadConfigEntry",
   "CmdlineTooLong", "ZeroPageSize", "ImageTooSmall", "ImmutableBlockSize"}

Rejected == cmd \in {"update", "create"} /\ pc = "aborted" /\ err \in Rejections

\* C2: when update or create is rejected, the target holds the bytes and
\* has the length it had before the command started.
C2_RejectionLeavesTarget ==
  Rejected => target.len = target0.len /\ target.data = target0.data


---------------------------------------------------------------------------
(* Properties of the functions on their own *)

Checked == cmd = "check_boot_img_header" /\ pc \in {"returned", "aborted"}

\* the seven tests in the order stated, each with the condition it reports
TestsInOrder(h, size) ==
  << [fails |-> h.magic # BOOT_MAGIC,      cond |-> "BadMagic"],
     [fails |-> ~(h.header_version <= 2),  cond |-> "UnsupportedVersion"],
     [fails |-> h.header_version >= 1
                  /\ h.header_size # boot_img_header_size(h),
                                           cond |-> "HeaderSizeMismatch"],
     [fails |-> h.kernel_size = 0,         cond |-> "EmptyKernel"],
     [fails |-> h.ramdisk_size = 0,        cond |-> "EmptyRamdisk"],
     [fails |-> h.page_size = 0,           cond |-> "ZeroPageSize"],
     [fails |-> h.page_size # 0 /\ ~(total_size(h) <= size),
                                           cond |-> "ImageTooSmall"] >>

FirstFailure(tests) ==
  IF \A j \in 1..Len(tests) : ~tests[j].fails THEN "ok"
  ELSE tests[CHOOSE j \in 1..Len(tests) :
               /\ tests[j].fails
               /\ \A l \in 1..(j - 1) : ~tests[l].fails].cond

\* C3: the validator reports the first test that fails in the order magic,
\* version, header size, kernel size, ramdisk size, page size, total size;
\* it accepts exactly when none fails; it aborts exactly on an unsupported
\* version and on a header-size mismatch and returns otherwise.
C3_FirstFailureReported ==
  Checked =>
    LET tests == TestsInOrder(img.header, img.size)
    IN  /\ err = FirstFailure(tests)
        /\ (err = "ok") <=> (\A j \in 1..Len(tests) : ~tests[j].fails)
        /\ (pc = "aborted")
             <=> err \in {"UnsupportedVersion", "HeaderSizeMismatch"}

\* a header with a wrong header size and no kernel: the size mismatch is
\* what is reported, and it is fatal
C3_Witness ==
  /\ Checked /\ pc = "aborted" /\ err = "HeaderSizeMismatch"
  /\ img.header.kernel_size = 0 /\ img.header.page_size = 0


LaidOut == cmd = "layout" /\ pc = "done"

\* pages(x) = ceil(x / P) in the integers
PagesNeeded(x, P) == (x + P - 1) \div P

\* the total size the sizes of h require, in the integers
TotalNeeded(h) ==
  (1 + PagesNeeded(h.kernel_size, h.page_size)
     + PagesNeeded(h.ramdisk_size, h.page_size)
     + PagesNeeded(h.second_size, h.page_size)
     + PagesNeeded(h.recovery_dtbo_size, h.page_size)
     + PagesNeeded(h.dtb_size, h.page_size)) * h.page_size

\* C4: for all sizes and every page size P > 0 the computed offsets are
\* non-decreasing in the order kernel, ramdisk, second stage, dtbo, dtb,
\* total; the kernel starts at page 1; every region ends at or before the
\* offset of the next; the total is (1 + the sum of ceil(size / P)) * P; and
\* page size 2048 with a 5000-byte kernel and a 3000-byte ramdisk puts the
\* ramdisk at page 4 with a total of 12288.
C4_LayoutIsMonotone ==
  LaidOut =>
    LET h == img.header
    IN  /\ wlog[1].off = h.page_size
        /\ \A j \in 1..5 : /\ wlog[j].off <= wlog[j + 1].off
                           /\ wlog[j].off + wlog[j].n <= wlog[j + 1].off
        /\ wlog[6].off = TotalNeeded(h)
        /\ (h.page_size = 2048 /\ h.kernel_size = 5000 /\ h.ramdisk_size = 3000
              /\ h.second_size = 0 /\ h.recovery_dtbo_size = 0
              /\ h.dtb_size = 0)
             => wlog[2].off = 4 * 2048 /\ wlog[6].off = 12288


Promoted == cmd = "update_header_version" /\ pc = "done"
PromotedAgain == cmd = "update_header_version" /\ pc = "again"

\* C5: update_header_version never lowers header_version; a second call
\* changes nothing; the version is at least 1 when recovery_dtbo_size > 0
\* and at least 2 when dtb_size > 0; header_size changes only when the
\* version rises and is then the header size of the new version; no other
\* field of the header or of the image changes.
C5_PromotionIsMonotone ==
  /\ Promoted =>
       LET h == img0.header
           g == img.header
       IN  /\ g.header_version >= h.header_version
           /\ h.recovery_dtbo_size > 0 => g.header_version >= 1
           /\ h.dtb_size > 0 => g.header_version >= 2
           /\ g.header_size # h.header_size
                => g.header_version > h.header_version
           /\ g.header_version > h.header_version
                => g.header_size = boot_img_header_size(g)
           /\ \A f \in DOMAIN h \ {"header_version", "header_size"} :
                g[f] = h[f]
           /\ [img EXCEPT !.header = h] = img0
  /\ PromotedAgain => img = img0

\* a version 0 header with a dtb becomes version 2 with the v2 header size
C5_Witness ==
  /\ Promoted
  /\ img0.header.header_version = 0 /\ img0.header.dtb_size > 0
  /\ img.header.header_version = 2 /\ img.header.header_size = SizeofV2


Entered == cmd = "update_header_entry" /\ pc \in {"done", "aborted"}

\* the line without its newline and leading blanks, its key token, and
\* whether an '=' follows the token
LineBody(l) ==
  LET c == Take(l, strcspn(l, {"\n"})) IN Drop(c, strspn(c, Blank))
KeyToken(l) == Take(LineBody(l), strcspn(LineBody(l), {" ", "\t", "="}))
HasEquals(l) ==
  LET rest == Drop(LineBody(l), Len(KeyToken(l)))
      r1   == Drop(rest, strspn(rest, Blank))
  IN  r1 # << >> /\ Head(r1) = "="

\* C6: a line is accepted only if it has the form key = value with a key
\* token equal to one of the ten keys; every other line stops with
\* BadConfigEntry and leaves the header and the container size as they were.
C6_OnlyExactKeysAccepted ==
  Entered =>
    LET l == args.config[1]
    IN  \/ HasEquals(l) /\ KeyToken(l) \in Keys
        \/ err = "BadConfigEntry" /\ img = img0


\* the line is "cmdline = " + s for an s on one line; CmdlineArg is that s
IsCmdlineLine(l) ==
  /\ Len(l) >= Len(CmdlinePrefix)
  /\ Take(l, Len(CmdlinePrefix)) = CmdlinePrefix
  /\ \A j \in 1..Len(l) : l[j] # "\n"
CmdlineArg(l) == Drop(l, Len(CmdlinePrefix))

CmdlineEntered == Entered /\ IsCmdlineLine(args.config[1])

\* C7 as stated: "cmdline = " + s stops with CmdlineTooLong exactly when
\* len(s) + 1 exceeds the capacity; otherwise the field holds s itself,
\* NUL-terminated, with NUL in every byte after it.
C7_CmdlineStoredExactly ==
  CmdlineEntered =>
    LET s == CmdlineArg(args.config[1])
    IN  /\ (err = "CmdlineTooLong") <=> (Len(s) + 1 > BOOT_ARGS_SIZE)
        /\ err # "CmdlineTooLong"
             => /\ err = "none"
                /\ img.header.cmdline = Padded(s, BOOT_ARGS_SIZE)
                /\ CStr(img.header.cmdline) = s

\* C7, with the value taken as the code takes it: "cmdline = " + s, for s
\* without a newline, stops with CmdlineTooLong exactly when len(v) + 1
\* exceeds the capacity, v being s without its leading spaces and tabs;
\* otherwise the field holds v, NUL-terminated, with NUL in every byte
\* after it, and nothing else in the image changes.
C7_CmdlineStoredTrimmed ==
  CmdlineEntered =>
    LET s == CmdlineArg(args.config[1])
        v == Drop(s, strspn(s, Blank))
    IN  /\ (err = "CmdlineTooLong") <=> (Len(v) + 1 > BOOT_ARGS_SIZE)
        /\ err = "CmdlineTooLong" => img = img0
        /\ err # "CmdlineTooLong"
             => /\ err = "none"
                /\ img.header.cmdline = Padded(v, BOOT_ARGS_SIZE)
                /\ CStr(img.header.cmdline) = v
                /\ img.header.cmdline[BOOT_ARGS_SIZE] = NUL
                /\ [img EXCEPT !.header.cmdline = img0.header.cmdline] = img0

\* " a" replaces the longer "qrs": the field holds "a" and NULs
C7_Witness ==
  /\ CmdlineEntered /\ err = "none"
  /\ CmdlineArg(args.config[1]) = <<" ", "a">>
  /\ CStr(img0.header.cmdline) = <<"q", "r", "s">>
  /\ img.header.cmdline = <<"a", NUL, NUL, NUL>>


---------------------------------------------------------------------------
(* Properties of the container size *)

\* the value of a key = value line
LineValue(l) ==
  LET rest == Drop(LineBody(l), Len(KeyToken(l)))
      r1   == Drop(rest, strspn(rest, Blank))
      r2   == Drop(r1, 1)
  IN  Drop(r2, strspn(r2, Blank))

IsBootsizeLine(l) ==
  HasEquals(l) /\ KeyToken(l) = <<"b", "o", "o", "t", "s", "i", "z", "e">>

\* update or create pointed at a block device that may be written
OnBlockDevice ==
  /\ cmd \in {"update", "create"}
  /\ target0.exists /\ target0.blk /\ ~target0.fs

\* the config lines were all applied
HeaderPatched == pc \in {"patched", "assembled", "promoted", "checked", "done"}

\* C8: on a block device a bootsize line that differs from the capacity
\* stops with ImmutableBlockSize, one equal to the capacity is accepted,
\* and from the patched header to the written image the container size is
\* the capacity of the device.
C8_BlockDeviceSizeFixed ==
  OnBlockDevice =>
    LET lines == args.config
        bs    == {j \in 1..Len(lines) : IsBootsizeLine(lines[j])}
    IN  /\ HeaderPatched =>
             /\ \A j \in bs : strtoull(LineValue(lines[j])) = target0.len
             /\ img.size = target0.len
        /\ (pc = "aborted" /\ err = "ImmutableBlockSize") =>
             \E j \in bs : strtoull(LineValue(lines[j])) # target0.len


\* update of a regular file that holds a valid image
OnFile ==
  /\ cmd = "update"
  /\ target0.exists /\ ~target0.blk
  /\ read_header(new_bootimg, target0).err = "none"

\* the lines of the run applied as bootsize lines
AppliedAsBootsize(l) ==
  HasEquals(l) /\ StrnEq(KeyToken(l), <<"b", "o", "o", "t", "s", "i", "z", "e">>)
BootsizeLines == {j \in 1..Len(args.config) : AppliedAsBootsize(args.config[j])}

Assembled == pc \in {"assembled", "promoted", "done"}
TooBig == pc = "aborted" /\ err = "ImageTooSmall"

---------------------------------------------------------------------------
(* Properties of the written image *)

Encoded == cmd \in {"update", "create"} /\ pc = "done"

\* the bytes from offset e up to the next page boundary
ToBoundary(e, P) == IF e % P = 0 THEN 0 ELSE P - (e % P)

\* the write after write j is the zero padding from e to the page boundary,
\* or there is none when e is on the boundary
PaddedToBoundary(j, e, P) ==
  IF ToBoundary(e, P) = 0
    THEN j = Len(wlog) \/ wlog[j + 1].what # "padding" \/ wlog[j + 1].n = 0
    ELSE /\ j < Len(wlog)
         /\ wlog[j + 1] = [what |-> "padding", off |-> e,
                           n |-> ToBoundary(e, P)]

\* C10: encode writes the header at offset 0 and zero padding up to byte
\* page_size, and each region it writes at its offset with zero padding up
\* to the next page boundary, none when the region ends on one; no write
\* ends after the total size; the written file has the container size
\* (a block device keeps its length).
C10_WritesStayInPages ==
  Encoded =>
    LET h == img.header
        P == h.page_size
    IN  /\ Len(wlog) >= 1
        /\ wlog[1] = [what |-> "header", off |-> 0,
                      n |-> boot_img_header_size(h)]
        /\ PaddedToBoundary(1, boot_img_header_size(h), P)
        /\ \A j \in 1..Len(wlog) :
             /\ wlog[j].off + wlog[j].n <= total_size(h)
             /\ wlog[j].what \in Regions =>
                  /\ wlog[j].off = OffsetOf(h, wlog[j].what)
                  /\ wlog[j].n = SizeOf(h, wlog[j].what)
                  /\ PaddedToBoundary(j, wlog[j].off + wlog[j].n, P)
        /\ target.len = IF target0.exists /\ target0.blk THEN target0.len
                        ELSE img.size

---------------------------------------------------------------------------
(* Encode, then decode *)

\* the update flow wrote the image with none of -k -r -s -o -d given
NoReplacement ==
  /\ cmd = "update"
  /\ \A b \in Regions : ~args[b].given

\* the fields that mean something in a header of version v
FieldsOf(v) ==
  V0Fields \cup (IF v >= 1 THEN V1Fields ELSE {})
           \cup (IF v >= 2 THEN V2Fields ELSE {})

\* read_header on the target as it is now, from a fresh t_abootimg
Decoded == read_header(new_bootimg, target).img.header

\* C11: a header of version 0, 1 or 2 that check_boot_img_header accepts,
\* written by write_bootimg with no payload replaced and read back by
\* read_header, comes back equal in every field of its version, and with
\* every field of a later version zero; whatever the page size.
C11_HeaderRoundTrip ==
  (/\ Encoded /\ NoReplacement
   /\ check_boot_img_header(img.header, img.size).cond = "ok") =>
    LET h == img.header
        d == Decoded
    IN  /\ \A f \in FieldsOf(h.header_version) : d[f] = h[f]
        /\ \A f \in DOMAIN h \ FieldsOf(h.header_version) :
             d[f] = ZeroHeader[f]

---------------------------------------------------------------------------
(* Dump, then read back *)

ReadBack ==
  cmd = "write_bootimg_config" /\ pc \in {"done", "aborted"}

\* what the config file carries
DumpedFields ==
  {"page_size", "kernel_addr", "ramdisk_addr", "second_addr", "tags_addr",
   "recovery_dtbo_offset", "dtb_addr", "name", "cmdline"}

\* C12: the config file write_bootimg_config makes of a decoded valid image
\* is taken by update_header line by line with no bad config entry and no
\* too long cmdline, and applied to the same image it leaves bootsize, the
\* page size, the four addresses, the two 64-bit fields, name and cmdline
\* as they were dumped.
C12_DumpReadsBack ==
  ReadBack =>
    /\ pc = "done" /\ err = "none"
    /\ img.size = img0.size
    /\ \A f \in DumpedFields : img.header[f] = img0.header[f]

---------------------------------------------------------------------------
(* What reaches write_bootimg *)

\* main is about to call write_bootimg
AtEncode ==
  \/ cmd = "update" /\ pc = "promoted"
  \/ cmd = "create" /\ pc = "checked"

\* C13: every image that reaches write_bootimg, in the update flow as in
\* the create flow, passes all the tests of check_boot_img_header against
\* the container size img->size it is about to be written with (magic,
\* version <= 2, header size of the version, kernel and ramdisk not empty,
\* page size not 0, total size <= container size), and its version is not
\* below the one a non-zero recovery dtbo or dtb size requires.
C13_EncodedImagesAreValid ==
  AtEncode =>
    /\ check_boot_img_header(img.header, img.size).cond = "ok"
    /\ img.header.header_version >= new_version(img.header)

\* an update that replaced the kernel and added a dtb to a version 0 image
C13_Witness ==
  /\ AtEncode /\ cmd = "update"
  /\ args.kernel.given /\ args.dtb.given
  /\ OrigHeader.header_version = 0
  /\ img.header.header_version = 2
  /\ img.header.kernel_size # OrigHeader.kernel_size

---------------------------------------------------------------------------
(* The capacity check *)

\* read_header accepted the header, or update_images accepted the sizes
PassedCapacityCheck ==
  \/ cmd \in {"info", "extract", "update"} /\ pc = "decoded"
  \/ cmd \in {"update", "create"} /\ pc = "assembled"

\* C14: a header with page_size > 0 passes the capacity check, in
\* read_header as in update_images, only if the exact total
\* (1 + pages(k) + pages(r) + pages(s) + pages(o) + pages(d)) * page_size,
\* taken in the integers, is at most the container size; no overflow of the
\* rounding, the page sum or the product lets through an image whose
\* regions do not fit.
C14_CapacityCheckIsExact ==
  PassedCapacityCheck => TotalNeeded(img.header) <= img.size

---------------------------------------------------------------------------
(* The order of the steps of one invocation *)

\* how far main has come
Stage ==
  [p \in {"start", "probed", "opened", "decoded", "patched", "dumped",
          "assembled", "x_kernel", "promoted", "x_ramdisk", "checked",
          "x_second", "x_dtbo", "done", "aborted"} |->
     CASE p = "start" -> 0
       [] p = "probed" -> 1
       [] p = "opened" -> 2
       [] p = "decoded" -> 3
       [] p \in {"patched", "dumped"} -> 4
       [] p \in {"assembled", "x_kernel"} -> 5
       [] p \in {"promoted", "x_ramdisk"} -> 6
       [] p \in {"checked", "x_second"} -> 7
       [] p = "x_dtbo" -> 8
       [] p = "done" -> 9
       [] p = "aborted" -> 10]

\* the header new_bootimg gives: the magic, page size 2048, the rest zero
DefaultHeader ==
  [f \in DOMAIN ZeroHeader |->
     IF f = "magic" THEN "ANDROID!"
     ELSE IF f = "page_size" THEN 2048
     ELSE ZeroHeader[f]]

\* one step of main in the order the flows allow
ForwardStep ==
  /\ pc \notin {"done", "aborted"}
  /\ Stage[pc'] > Stage[pc]
  /\ cmd' = cmd
  \* decode: only info, extract and update, and what it rejects ends there
  /\ pc' = "decoded" =>
       /\ cmd \in {"info", "extract", "update"} /\ pc = "opened"
       /\ read_header(img, target).err = "none"
  /\ (pc = "opened" /\ cmd # "create") => pc' \in {"decoded", "aborted"}
  /\ (pc = "opened" /\ cmd # "create"
        /\ read_header(img, target).err # "none") =>
       /\ pc' = "aborted"
       /\ target' = target /\ outs' = outs /\ wlog' = wlog /\ rlog' = rlog
  \* create: no decode, the default header, both sources
  /\ (cmd = "create" /\ pc' = "patched") =>
       /\ pc = "opened"
       /\ img.header = DefaultHeader
  /\ (cmd = "create" /\ Stage[pc'] < Stage["aborted"]) =>
       /\ args.kernel.given /\ args.ramdisk.given
       /\ rlog' = << >>
  \* patch, lay out, promote, encode, in this order
  /\ (cmd = "update" /\ pc' = "patched") => pc = "decoded"
  /\ pc' = "assembled" => pc = "patched"
  /\ pc' = "promoted" =>
       /\ pc = "assembled"
       /\ img' = [img EXCEPT !.header = update_header_version(img.header)]
  /\ pc' = "checked" => cmd = "create" /\ pc = "promoted"
  /\ (cmd \in {"update", "create"} /\ pc' = "done") =>
       /\ pc = IF cmd = "update" THEN "promoted" ELSE "checked"
       /\ img' = img
  /\ cmd \in {"info", "extract"} => target' = target /\ wlog' = wlog
  /\ pc' \in {"dumped", "x_kernel", "x_ramdisk", "x_second", "x_dtbo"} =>
       cmd = "extract" /\ Stage[pc] >= Stage["decoded"]

\* C15: an invocation only moves forward through unopened, decoded,
\* patched, laid out, encoded.  In the info, extract and update flows a
\* header rejected by read_header ends the run: nothing is patched,
\* assembled, extracted or written afterwards.  The create flow never
\* decodes the target, starts from the default header (magic, page size
\* 2048, version 0, sizes 0) and goes past the usage text only with both a
\* kernel and a ramdisk.  The version is promoted after every config line
\* and replacement was applied, and before the image is written.
C15_StepsOnlyForward == [][ForwardStep]_vars

\* an update stopped at a rejected header, the target as it was
C15_Witness ==
  /\ cmd = "update" /\ pc = "aborted"
  /\ err \in {"BadMagic", "EmptyKernel", "ImageTooSmall"}
  /\ read_header(new_bootimg, target0).err = err
  /\ target = target0 /\ wlog = << >>

---------------------------------------------------------------------------
(* The offsets of extraction, of write_bootimg and of the re-read *)

ExtractedAll == cmd = "extract" /\ pc = "done"

\* the image with a buffer held for every region
WithAllParts(i) ==
  [i EXCEPT !.kernel  = Bytes(1, Max(1, i.header.kernel_size)),
            !.ramdisk = Bytes(2, Max(1, i.header.ramdisk_size)),
            !.second  = Bytes(3, Max(1, i.header.second_size)),
            !.dtbo    = Bytes(4, Max(1, i.header.recovery_dtbo_size)),
            !.dtb     = Bytes(5, Max(1, i.header.dtb_size))]

\* where write_bootimg writes region r of the image, and how much
WrittenAt(i, r) ==
  LET ops == WriteOps(WithAllParts(i))
  IN  { [off |-> ops[j].off, n |-> ops[j].n] :
          j \in { k \in 1..Len(ops) : ops[k].op = "write"
                                        /\ ops[k].what = r } }

\* where update_images re-reads region r of the image when the kernel is
\* replaced by a file
RereadAt(i, t, r) ==
  LET st == update_images(i, [NoArguments EXCEPT !.kernel = Src(6, 1)], t)
  IN  { [off |-> st.reads[j].off, n |-> st.reads[j].n] :
          j \in { k \in 1..Len(st.reads) : st.reads[k].what = r } }

\* where the extract flow read region r
ExtractedAt(r) ==
  { [off |-> rlog[j].off, n |-> rlog[j].n] :
      j \in { k \in 1..Len(rlog) : rlog[k].what = r } }

\* C16: for a header with page_size > 0, each region that is present is
\* extracted from the offset at which write_bootimg writes it for the same
\* header, which is also the offset update_images re-reads it from; a
\* second stage, recovery dtbo or dtb of size 0 is neither extracted nor
\* written.
C16_OffsetsAgree ==
  (ExtractedAll /\ img.header.page_size > 0) =>
    \A r \in Regions :
      IF r \in {"kernel", "ramdisk"} \/ SizeOf(img.header, r) # 0
        THEN /\ Cardinality(ExtractedAt(r)) = 1
             /\ WrittenAt(img, r) = ExtractedAt(r)
             /\ r # "kernel" => RereadAt(img, target, r) = ExtractedAt(r)
        ELSE /\ ExtractedAt(r) = {}
             /\ WrittenAt(img, r) = {}
             /\ RereadAt(img, target, r) = {}

\* a version 2 image with all five regions was extracted
C16_Witness ==
  /\ ExtractedAll
  /\ \A r \in Regions : SizeOf(img.header, r) # 0 /\ Len(outs[r]) # 0

====
